---- MODULE Spec2Model ----
(***************************************************************************)
(* The gesture confirmation engine of the flashcard learner: the React     *)
(* hook useGestureControl (frontend/src/hooks/useGestureControl.ts), the   *)
(* host runtime's timer queue it schedules into, and the frame loop of     *)
(* useHandGestureDetection that delivers gesture samples to it.            *)
(*                                                                         *)
(* Time is the host clock in whole milliseconds.  A timer fires when the   *)
(* clock reaches its due time (the fake-timer semantics of the hook's test *)
(* suite); samples and timer firings that fall on the same millisecond     *)
(* interleave in any order.                                                *)
(***************************************************************************)
EXTENDS Integers, FiniteSets, Sequences, TLC

\* ---------------------------------------------------------------- bounds
\* The holdDurationMs prop the caller passes, in clock ticks.
HoldMs == 2
\* The two overallTimeoutMs prop values a caller may pass: TimeoutMs and
\* TimeoutMs + 1.
TimeoutMs == 3
\* The clock stops advancing at MaxTime.
MaxTime == 7

\* The backend accepts MaxAdded new cards and, driven through its whole API,
\* MaxTrials answers; the scheduler is followed up to bucket MaxBucket and
\* day MaxDay.
MaxAdded == 1
MaxTrials == 3
MaxBucket == 5
MaxDay == 16

\* At most MaxInFlight requests of a component are pending at a time.
MaxInFlight == 2

\* useWebcam asks for the camera at most MaxCameraRequests times.
MaxCameraRequests == 5

\* ---------------------------------------------------------------- constants
\* The defaults of the holdDurationMs and overallTimeoutMs props.
DEFAULT_HOLD_DURATION_MS == 1500
DEFAULT_OVERALL_TIMEOUT_MS == 8000

\* The hold duration the hook's test suite works with.
HOLD_DURATION_MS == 750

\* The fake clock is advanced by HOLD_DURATION_MS - 1 and by 1, and not
\* beyond the millisecond after the default inactivity deadline.
AdvanceSteps == {HOLD_DURATION_MS - 1, 1}
DefaultHorizon == DEFAULT_OVERALL_TIMEOUT_MS + 1

\* ---------------------------------------------------------------- values
Null == "null"

ConfirmableGestures == {"THUMBS_UP", "THUMBS_DOWN", "THUMBS_SIDEWAYS"}

GestureId == ConfirmableGestures \cup {"OTHER", Null}

\* What can be handed to processDetectedGesture at run time: the GestureId
\* values and a string outside the enumeration.
SampleValues == GestureId \cup {"SIDEWAYS"}

GestureOutcome == {"easy", "wrong", "hard", Null}

TimeoutValues == {TimeoutMs, TimeoutMs + 1}

\* A ref holding no timer handle (useRef(null)).
NoTimer == [kind |-> "none", gesture |-> Null, due |-> 0]

\* gestureStartTime === null
NoTime == -1

VARIABLES
    now,                      \* Date.now()
    isActive,                 \* the isActive prop of the last render
    holdDurationMs,           \* the holdDurationMs prop (or its default)
    overallTimeoutMs,         \* the overallTimeoutMs prop of the last render
    currentGestureRef,        \* currentGestureRef.current
    gestureStartTime,
    confirmedOutcome,
    timeoutNotificationShown,
    feedbackGesture,
    confirmationTimerRef,     \* confirmationTimerRef.current
    overallTimeoutRef,        \* overallTimeoutRef.current
    timers,                   \* the host's pending setTimeout callbacks
    staleLoop,                \* a frame loop still holds a processDetectedGesture
                              \* created while isActive was true
    callbackCalls,            \* invocations of onGestureConfirmed since the
                              \* last activation
    lastCallArg,              \* argument of the last invocation
    lastEvent,                \* the handler that ran last, and its input
    hands,                    \* detectFrame: what estimateHands resolved to
    gesture,                  \* detectFrame: classifyHandPose(hands)
    outcomeArg,               \* the argument of a getOutcomeForGesture call
    outcomeResult,            \* what that call returned
    currentBuckets,           \* backend state.ts: bucket number -> set of cards
    practiceHistory,          \* backend state.ts: the practice records
    currentDay,               \* backend state.ts
    response,                 \* the last HTTP response of the backend
    currentCardIndex,         \* PracticeView state
    showBack,
    sessionFinished,
    viewError,                \* PracticeView: error !== null
    pendingSubmits,           \* submitAnswer calls whose promise is pending
    submitCalls,              \* submitAnswer calls since the answer was shown
    detectionActive,          \* the isActive prop of useHandGestureDetection
    pendingCamera,            \* useWebcam: getUserMedia promises pending
    cameraRequested,          \* useWebcam: getUserMedia calls so far
    streamRef,                \* useWebcam: streamRef.current
    metadataPending,          \* useWebcam: onloadedmetadata not yet fired
    isWebcamReady,
    webcamError,
    detector,                 \* useHandPoseDetection state
    isModelLoading,
    modelError,
    modelLoadingPromiseRef,   \* modelLoadingPromiseRef.current
    detectionError,           \* useHandGestureDetection: error
    requestRef,               \* requestRef.current
    frames                    \* animation frames requested and not yet run

vars == <<now, isActive, holdDurationMs, overallTimeoutMs, currentGestureRef,
          gestureStartTime, confirmedOutcome, timeoutNotificationShown,
          feedbackGesture, confirmationTimerRef, overallTimeoutRef, timers,
          staleLoop, callbackCalls, lastCallArg, lastEvent, hands, gesture,
          outcomeArg, outcomeResult, currentBuckets, practiceHistory,
          currentDay, response, currentCardIndex, showBack, sessionFinished,
          viewError, pendingSubmits, submitCalls, detectionActive,
          pendingCamera, cameraRequested, streamRef, metadataPending,
          isWebcamReady, webcamError, detector, isModelLoading, modelError,
          modelLoadingPromiseRef, detectionError, requestRef, frames>>

\* The frame being classified and the mapping call being evaluated.
frameVars == <<hands, gesture, outcomeArg, outcomeResult>>

\* The backend's in-memory store and its last response.
storeVars == <<currentBuckets, practiceHistory, currentDay, response>>

\* Everything outside the hook useGestureControl.
\* PracticeView's state.
viewVars ==
    <<currentCardIndex, showBack, sessionFinished, viewError, pendingSubmits,
      submitCalls>>

\* useWebcam's, useHandPoseDetection's and useHandGestureDetection's state.
webcamVars ==
    <<pendingCamera, cameraRequested, streamRef, metadataPending,
      isWebcamReady, webcamError>>
loaderVars == <<detector, isModelLoading, modelError, modelLoadingPromiseRef>>
detectionVars ==
    <<detectionActive, webcamVars, loaderVars, detectionError, requestRef,
      frames>>

clientVars == <<viewVars, detectionVars>>

outsideHookVars == <<frameVars, storeVars, clientVars>>

\* The state the hook itself owns (refs and useState cells) and its timers.
engineVars == <<currentGestureRef, gestureStartTime, confirmedOutcome,
                timeoutNotificationShown, feedbackGesture,
                confirmationTimerRef, overallTimeoutRef, timers>>

\* The handler that ran, its input, and the symbol tracked when it started.
Event(op, arg, prev) == [op |-> op, arg |-> arg, prev |-> prev]

\* ---------------------------------------------------------------- helpers
\* A mapping with the easy and wrong cases exchanged.
getOutcomeForGesture_Swapped(gestureId) ==
    CASE gestureId = "THUMBS_UP" -> "wrong"
      [] gestureId = "THUMBS_DOWN" -> "easy"
      [] gestureId = "THUMBS_SIDEWAYS" -> "hard"
      [] OTHER -> Null

getOutcomeForGesture(gestureId) ==
    CASE gestureId = "THUMBS_UP" -> "easy"
      [] gestureId = "THUMBS_DOWN" -> "wrong"
      [] gestureId = "THUMBS_SIDEWAYS" -> "hard"
      [] OTHER -> Null

\* A hold timer scheduled one millisecond short.
HoldTimer_Short(detectedGesture, delay) ==
    [kind |-> "hold", gesture |-> detectedGesture, due |-> now + delay - 1]

\* A hold timer measured from the start of the previous symbol's hold.
HoldTimer_FromOldStart(detectedGesture, delay) ==
    [kind |-> "hold", gesture |-> detectedGesture,
     due |-> (IF gestureStartTime # NoTime THEN gestureStartTime ELSE now) + delay]

\* setTimeout(cb, delay): the timer the host queues.
HoldTimer(detectedGesture, delay) ==
    [kind |-> "hold", gesture |-> detectedGesture, due |-> now + delay]

\* An inactivity timer scheduled with the hold duration.
OverallTimer_HoldDelay(delay) ==
    [kind |-> "overall", gesture |-> Null, due |-> now + HoldMs]

OverallTimer(delay) ==
    [kind |-> "overall", gesture |-> Null, due |-> now + delay]

\* A clearTimeout that is forgotten: the timer stays queued.
ClearTimeout_Forgotten(queue, ref) == queue

\* if (ref.current) { clearTimeout(ref.current); ... }: the queue afterwards.
ClearTimeout(queue, ref) == queue \ {ref}

\* A clearOverallTimer that nulls the ref without clearing the timer.
clearOverallTimer_RefOnly(queue) == queue

\* clearOverallTimer(): the queue afterwards (the ref is set to null by the
\* caller's overallTimeoutRef' conjunct).
clearOverallTimer(queue) == ClearTimeout(queue, overallTimeoutRef)

\* A change test that treats every sample as a change.
GestureChanged_Always(detectedGesture, current) == TRUE

\* detectedGesture !== currentGestureRef.current
GestureChanged(detectedGesture, current) == detectedGesture # current

\* A validity test that only rejects null.
IsValidGesture_NullOnly(detectedGesture) == detectedGesture # Null

\* detectedGesture !== null && detectedGesture !== "OTHER"
IsValidGesture(detectedGesture) ==
    detectedGesture # Null /\ detectedGesture # "OTHER"

\* The staleness check of the hold timer's callback.
StillCurrent(current, detectedGesture) == current = detectedGesture

\* ---------------------------------------------------------------- classifier
\* A value not computed yet.
Pending == "pending"

\* A 3D keypoint, and the same keypoint without its optional z.
Keypoint(x, y, z) == [x |-> x, y |-> y, z |-> z]
WithoutZ(p) == [x |-> p.x, y |-> p.y]

\* The landmarks classifyHandPose reads: keypoints[0], [1], [2], [3], [4],
\* [5] and [17].
RequiredLandmarks ==
    {"wrist", "thumbCMC", "thumbMCP", "thumbIP", "thumbTIP", "indexMCP",
     "pinkyMCP"}

\* Positions of the thumb's MCP joint and of its tip, and of the index and
\* pinky MCP joints; the wrist is at the origin and the thumb's CMC joint
\* next to it.
ThumbMCPPositions == {Keypoint(1, y, 0) : y \in {-4, -2, 0, 2, 4}}
ThumbTIPPositions ==
    {Keypoint(x, y, z) : x \in {1, 3}, y \in {-4, 0, 4}, z \in {0, 1}}
PalmPositions == {Keypoint(0, -2, 0), Keypoint(0, 2, 0), Keypoint(2, 0, 0)}

\* A hand with the wrist at the origin, the thumb's CMC joint next to it and
\* the thumb's IP joint on its MCP joint.
Pose(m, t, i, k) ==
    [wrist |-> Keypoint(0, 0, 0), thumbCMC |-> Keypoint(1, 0, 0),
     thumbMCP |-> m, thumbIP |-> m, thumbTIP |-> t, indexMCP |-> i,
     pinkyMCP |-> k]

\* Hands whose thumb passes the extension test and whose orientation product
\* is exactly 0.7, -0.7, 0.3 and -0.3 (the doubles the code computes for them
\* are 0.6999999999999998 and 0.3, so the code decides them as the exact
\* values are decided).
BoundaryPoses ==
    {Pose(Keypoint(1, -2, 0), Keypoint(1, 7, 0),
          Keypoint(0, 2, 0), Keypoint(2, 0, 0)),
     Pose(Keypoint(1, 2, 0), Keypoint(1, -7, 0),
          Keypoint(0, 2, 0), Keypoint(2, 0, 0)),
     Pose(Keypoint(-1, -1, 0), Keypoint(3, 1, 0),
          Keypoint(0, 2, 0), Keypoint(2, 4, 0)),
     Pose(Keypoint(-1, 1, 0), Keypoint(3, -1, 0),
          Keypoint(0, 2, 0), Keypoint(2, 4, 0))}

\* The landmarks of one hand, every z present.
Poses ==
    {Pose(m, t, i, k) :
        m \in ThumbMCPPositions, t \in ThumbTIPPositions,
        i \in PalmPositions, k \in PalmPositions}
    \cup BoundaryPoses

\* The same landmarks with the z of one of them missing.
DropZ(pose, name) == [pose EXCEPT ![name] = WithoutZ(pose[name])]

\* What estimateHands can resolve to: hands[0] with its keypoints3D array
\* (absent, or of some length) and the landmarks read from it.
Hands(hasKeypoints3D, keypointCount, pose) ==
    [isNull |-> FALSE, length |-> 1, hasKeypoints3D |-> hasKeypoints3D,
     keypointCount |-> keypointCount, landmarks |-> pose]

APose == CHOOSE pose \in Poses : TRUE

\* hands is null or undefined, and hands is the empty array.
NullHands ==
    [isNull |-> TRUE, length |-> 0, hasKeypoints3D |-> FALSE,
     keypointCount |-> 0, landmarks |-> APose]
EmptyHands == [NullHands EXCEPT !.isNull = FALSE]

HandInputs ==
    {NullHands, EmptyHands}
    \cup {Hands(FALSE, 0, pose) : pose \in Poses}
    \cup {Hands(TRUE, n, pose) : n \in {0, 20}, pose \in Poses}
    \cup {Hands(TRUE, 21, pose) : pose \in Poses}
    \cup {Hands(TRUE, 21, DropZ(pose, name)) :
            pose \in Poses, name \in RequiredLandmarks}

Minus(a, b) == [x |-> a.x - b.x, y |-> a.y - b.y, z |-> a.z - b.z]
Dot(u, v) == u.x * v.x + u.y * v.y + u.z * v.z

\* calculateAngle(a, b, c): the angle between the vectors a->b and b->c, kept
\* exact as its cosine num / sqrt(sqden); sqden = 0 is the NaN the code
\* computes from a zero-length vector.
calculateAngle(a, b, c) ==
    LET vectorAB == Minus(b, a)
        vectorBC == Minus(c, b)
    IN  [num |-> Dot(vectorAB, vectorBC),
         sqden |-> Dot(vectorAB, vectorAB) * Dot(vectorBC, vectorBC)]

\* thumbBendAngle > 150: cos(angle) < cos(150 deg) = -sqrt(3)/2.
isThumbExtended(thumbBendAngle) ==
    /\ thumbBendAngle.sqden # 0
    /\ thumbBendAngle.num < 0
    /\ 4 * thumbBendAngle.num * thumbBendAngle.num > 3 * thumbBendAngle.sqden

\* normThumbDir.y * normPalmDir.y, exact as num / sqrt(sqden); the palm
\* direction is taken twice as long, which normalisation undoes.
OrientationProduct(pose) ==
    LET thumbDirection == Minus(pose.thumbTIP, pose.wrist)
        palmDirection ==
            [x |-> pose.indexMCP.x + pose.pinkyMCP.x - 2 * pose.wrist.x,
             y |-> pose.indexMCP.y + pose.pinkyMCP.y - 2 * pose.wrist.y,
             z |-> pose.indexMCP.z + pose.pinkyMCP.z - 2 * pose.wrist.z]
    IN  [num |-> thumbDirection.y * palmDirection.y,
         sqden |-> Dot(thumbDirection, thumbDirection)
                   * Dot(palmDirection, palmDirection)]

\* A DOWN test that includes the boundary value.
Above07_Inclusive(v) ==
    v.sqden # 0 /\ v.num > 0 /\ 100 * v.num * v.num >= 49 * v.sqden

\* dotProduct < -0.7, dotProduct > 0.7 and Math.abs(dotProduct) < 0.3; every
\* comparison is false for NaN (sqden = 0).
BelowMinus07(v) == v.num < 0 /\ 100 * v.num * v.num > 49 * v.sqden
Above07(v) == v.num > 0 /\ 100 * v.num * v.num > 49 * v.sqden
AbsBelow03(v) == 100 * v.num * v.num < 9 * v.sqden

\* A length test that only rejects a missing keypoints3D array.
TooFewKeypoints_AbsentOnly(h) == ~h.hasKeypoints3D

\* !keypoints || keypoints.length < 21
TooFewKeypoints(h) == ~h.hasKeypoints3D \/ h.keypointCount < 21

\* points.some(p => p.z === undefined)
SomeZMissing(pose) ==
    \E name \in RequiredLandmarks : "z" \notin DOMAIN pose[name]

\* The three orientation tests, in the order of the code.
OrientationDecision(dotProduct) ==
    IF BelowMinus07(dotProduct) THEN "THUMBS_UP"
    ELSE IF Above07(dotProduct) THEN "THUMBS_DOWN"
    ELSE IF AbsBelow03(dotProduct) THEN "THUMBS_SIDEWAYS"
    ELSE Null

classifyHandPose(h) ==
    IF h.isNull \/ h.length = 0 THEN Null
    ELSE IF TooFewKeypoints(h) THEN Null
    ELSE IF SomeZMissing(h.landmarks) THEN Null
    ELSE IF ~isThumbExtended(calculateAngle(h.landmarks.thumbCMC,
                                            h.landmarks.thumbMCP,
                                            h.landmarks.thumbTIP)) THEN Null
    ELSE OrientationDecision(OrientationProduct(h.landmarks))

\* ---------------------------------------------------------------- store
\* JSON values of a request body: a string, a number (by its text) and an
\* absent field.
Str(text) == [type |-> "string", text |-> text]
Num(text) == [type |-> "number", text |-> text]
Undefined == [type |-> "undefined", text |-> ""]

Falsy_UndefinedOnly(v) == v.type = "undefined"

\* !v for the JSON values above.
Falsy(v) ==
    \/ v.type = "undefined"
    \/ v.type = "string" /\ v.text = ""
    \/ v.type = "number" /\ v.text = "0"

\* enum AnswerDifficulty { Wrong = 0, Hard = 1, Easy = 2 }
Wrong == Num("0")
Hard == Num("1")
Easy == Num("2")

\* Object.values(AnswerDifficulty) of the compiled numeric enum: the member
\* names of the reverse mapping and the three numbers.
AnswerDifficultyValues ==
    {Str("Wrong"), Str("Hard"), Str("Easy"), Wrong, Hard, Easy}

\* new Flashcard(id, front, back, hint, tags); ids are told apart by number.
Flashcard(id, front, back, hint) ==
    [id |-> id, front |-> front, back |-> back, hint |-> hint]

initialCards ==
    {Flashcard(1, "What is the capital of France?", "Paris",
               Str("It's known as the city of love.")),
     Flashcard(2, "2 + 2", "4", Str("Basic math")),
     Flashcard(3, "What does HTTP stand for?", "HyperText Transfer Protocol",
               Str("Internet protocol"))}

\* The keys of a BucketMap, and all cards in it.
BucketNumbers(buckets) == DOMAIN buckets
AllCards(buckets) == UNION {buckets[k] : k \in DOMAIN buckets}

\* totalflashcards()
totalflashcards(buckets) == Cardinality(AllCards(buckets))

Minimum(S) == CHOOSE m \in S : \A n \in S : m <= n
Maximum(S) == CHOOSE m \in S : \A n \in S : m >= n

\* buckets.set(key, cards) on a Map.
MapSet(buckets, key, cards) ==
    [k \in DOMAIN buckets \cup {key} |-> IF k = key THEN cards ELSE buckets[k]]

\* The stored cards with card.front === front && card.back === back.
MatchingCards(buckets, front, back) ==
    {c \in AllCards(buckets) :
        /\ front.type = "string" /\ c.front = front.text
        /\ back.type = "string" /\ c.back = back.text}

\* The first bucket, in key order (the keys are inserted in ascending
\* order), that holds the card; -1 if none does.
BucketOf(buckets, card) ==
    IF \E k \in DOMAIN buckets : card \in buckets[k]
      THEN Minimum({k \in DOMAIN buckets : card \in buckets[k]})
      ELSE -1

\* findCard(front, back): the matching cards of the first bucket that has
\* one; which of them the scan meets first is the insertion order of that
\* bucket's Set, so any of them can be the result.
findCard(buckets, front, back) ==
    LET found == MatchingCards(buckets, front, back)
        firstBucket == Minimum({BucketOf(buckets, c) : c \in found})
    IN  {c \in found : BucketOf(buckets, c) = firstBucket}

\* findCardBucket(cardToFind)
findCardBucket(buckets, cardToFind) == BucketOf(buckets, cardToFind)

\* An Easy answer that moves the card up without the cap of buckets.size.
EasyBucket_TwoUp(currentBucket, size) == currentBucket + 2

\* Math.min(currentBucket + 1, buckets.size)
EasyBucket(currentBucket, size) ==
    IF currentBucket + 1 <= size THEN currentBucket + 1 ELSE size

\* update(buckets, card, difficulty) of logic/algorithm.
update(buckets, card, difficulty) ==
    LET currentBucket == BucketOf(buckets, card)
        removed ==
            IF currentBucket = -1 THEN buckets
            ELSE [buckets EXCEPT ![currentBucket] = @ \ {card}]
        newBucket ==
            IF difficulty = Easy
              THEN EasyBucket(currentBucket, Cardinality(DOMAIN buckets))
            ELSE IF difficulty = Hard
              THEN (IF currentBucket - 1 >= 0 THEN currentBucket - 1 ELSE 0)
            ELSE IF difficulty = Wrong THEN 0
            ELSE currentBucket
        present ==
            IF newBucket \in DOMAIN removed THEN removed
            ELSE MapSet(removed, newBucket, {})
    IN  [present EXCEPT ![newBucket] = @ \cup {card}]

\* toBucketSets(buckets): the array of buckets 0 .. max key, as a function
\* on its indices.
toBucketSets(buckets) ==
    LET maxBucket == IF DOMAIN buckets # {} THEN Maximum(DOMAIN buckets) ELSE -1
    IN  [i \in 0..maxBucket |-> IF i \in DOMAIN buckets THEN buckets[i] ELSE {}]

RECURSIVE Pow2(_)
Pow2(i) == IF i = 0 THEN 1 ELSE 2 * Pow2(i - 1)

\* A loop bound that is the array length for every array.
PracticeLength_Whole(arrayLength) == arrayLength

\* buckets.length === 5 ? 4 : buckets.length
PracticeLength(arrayLength) == IF arrayLength = 5 THEN 4 ELSE arrayLength

\* practice(buckets, day) of logic/algorithm.
practice(bucketSets, day) ==
    LET length == PracticeLength(Cardinality(DOMAIN bucketSets))
    IN  UNION {bucketSets[i] : i \in {j \in 0..(length - 1) : day % Pow2(j) = 0}}

\* The store when the backend has started, before any request.
InitialStore ==
    /\ currentBuckets = [k \in {0} |-> initialCards]
    /\ practiceHistory = <<>>
    /\ currentDay = 1
    /\ response = [op |-> "none", status |-> 0, body |-> Undefined]

\* PracticeView after its first fetch of the practice cards (day 1: the
\* cards of bucket 0), the first card's front shown.
InitialView ==
    /\ currentCardIndex = 0
    /\ showBack = FALSE
    /\ sessionFinished = FALSE
    /\ viewError = FALSE
    /\ pendingSubmits = <<>>
    /\ submitCalls = 0

\* useHandGestureDetection mounted with isActive false.
InitialDetection ==
    /\ detectionActive = FALSE
    /\ pendingCamera = 0
    /\ cameraRequested = 0
    /\ streamRef = Null
    /\ metadataPending = FALSE
    /\ isWebcamReady = FALSE
    /\ webcamError = Null
    /\ detector = Null
    /\ isModelLoading = FALSE
    /\ modelError = Null
    /\ modelLoadingPromiseRef = Null
    /\ detectionError = Null
    /\ requestRef = Null
    /\ frames = 0

InitialClient == InitialView /\ InitialDetection

\* ---------------------------------------------------------------- Init
\* The hook right after mount: every cell and ref null; mounted with isActive
\* true, the overall timeout effect has started the inactivity timer.
Init ==
    /\ now = 0
    /\ isActive \in BOOLEAN
    /\ overallTimeoutMs \in TimeoutValues
    /\ currentGestureRef = Null
    /\ gestureStartTime = NoTime
    /\ confirmedOutcome = Null
    /\ timeoutNotificationShown = FALSE
    /\ feedbackGesture = Null
    /\ confirmationTimerRef = NoTimer
    /\ overallTimeoutRef = IF isActive THEN OverallTimer(overallTimeoutMs) ELSE NoTimer
    /\ timers = IF isActive THEN {OverallTimer(overallTimeoutMs)} ELSE {}
    /\ staleLoop = FALSE
    /\ callbackCalls = 0
    /\ lastCallArg = Null
    /\ lastEvent = Event("mount", Null, Null)
    /\ holdDurationMs = HoldMs
    /\ hands = Pending
    /\ gesture = Pending
    /\ outcomeArg = Pending
    /\ outcomeResult = Pending
    /\ InitialStore
    /\ InitialClient

\* ---------------------------------------------------------------- effects
\* isActive turns true: the cleanups of both effects run (clearOverallTimer,
\* clearTimer), then the overall timeout effect clears the notification and
\* starts the inactivity timer; the cleanup effect's body does nothing.
\* While the engine is active a handler kept by a stale loop behaves exactly
\* like the current one, so the stale loop is no longer told apart; the count
\* of callback invocations starts again with the window.
Activate ==
    /\ ~isActive
    /\ isActive' = TRUE
    /\ timeoutNotificationShown' = FALSE
    /\ overallTimeoutRef' = OverallTimer(overallTimeoutMs)
    /\ confirmationTimerRef' = NoTimer
    /\ timers' = ClearTimeout(clearOverallTimer(timers), confirmationTimerRef)
                 \cup {OverallTimer(overallTimeoutMs)}
    /\ staleLoop' = FALSE
    /\ callbackCalls' = 0
    /\ lastEvent' = Event("activate", Null, currentGestureRef)
    /\ UNCHANGED <<now, overallTimeoutMs, currentGestureRef, gestureStartTime,
                   confirmedOutcome, feedbackGesture, lastCallArg>>
    /\ UNCHANGED <<holdDurationMs, outsideHookVars>>

\* isActive turns false: the cleanups run, the overall timeout effect clears
\* the inactivity timer, the cleanup effect clears the hold timer and resets
\* currentGestureRef and gestureStartTime.  A frame loop whose estimateHands
\* call is in flight keeps the processDetectedGesture it was created with.
Deactivate ==
    /\ isActive
    /\ isActive' = FALSE
    /\ overallTimeoutRef' = NoTimer
    /\ confirmationTimerRef' = NoTimer
    /\ timers' = ClearTimeout(clearOverallTimer(timers), confirmationTimerRef)
    /\ currentGestureRef' = Null
    /\ gestureStartTime' = NoTime
    /\ staleLoop' \in BOOLEAN
    /\ lastEvent' = Event("deactivate", Null, currentGestureRef)
    /\ UNCHANGED <<now, overallTimeoutMs, confirmedOutcome,
                   timeoutNotificationShown, feedbackGesture, callbackCalls,
                   lastCallArg>>
    /\ UNCHANGED <<holdDurationMs, outsideHookVars>>

\* A render with another overallTimeoutMs: the overall timeout effect runs
\* again (cleanup, then body) while the cleanup effect is left alone.
SetOverallTimeout(ms) ==
    /\ ms # overallTimeoutMs
    /\ overallTimeoutMs' = ms
    /\ IF isActive
         THEN /\ timeoutNotificationShown' = FALSE
              /\ overallTimeoutRef' = OverallTimer(ms)
              /\ timers' = clearOverallTimer(timers)
                           \cup {OverallTimer(ms)}
         ELSE /\ overallTimeoutRef' = NoTimer
              /\ timers' = clearOverallTimer(timers)
              /\ UNCHANGED timeoutNotificationShown
    /\ lastEvent' = Event("setOverallTimeout", Null, currentGestureRef)
    /\ UNCHANGED <<now, isActive, currentGestureRef, gestureStartTime,
                   confirmedOutcome, feedbackGesture, confirmationTimerRef,
                   staleLoop, callbackCalls, lastCallArg>>
    /\ UNCHANGED <<holdDurationMs, outsideHookVars>>

\* ---------------------------------------------------------------- samples
\* The body of processDetectedGesture after its isActive guard.
ProcessBody(detectedGesture) ==
    IF GestureChanged(detectedGesture, currentGestureRef)
      THEN /\ currentGestureRef' = detectedGesture
           /\ feedbackGesture' = detectedGesture
           /\ confirmedOutcome' = Null
           /\ IF IsValidGesture(detectedGesture)
                THEN /\ gestureStartTime' = now
                     /\ confirmationTimerRef' =
                            HoldTimer(detectedGesture, holdDurationMs)
                     /\ timers' = ClearTimeout(timers, confirmationTimerRef)
                                  \cup {HoldTimer(detectedGesture, holdDurationMs)}
                ELSE /\ gestureStartTime' = NoTime
                     /\ confirmationTimerRef' = NoTimer
                     /\ timers' = ClearTimeout(timers, confirmationTimerRef)
           /\ UNCHANGED <<timeoutNotificationShown, overallTimeoutRef>>
      ELSE UNCHANGED engineVars

\* processDetectedGesture of the current render.
ProcessDetectedGesture(detectedGesture) ==
    /\ IF ~isActive THEN UNCHANGED engineVars ELSE ProcessBody(detectedGesture)
    /\ lastEvent' = Event("sample", detectedGesture, currentGestureRef)
    /\ UNCHANGED <<now, isActive, overallTimeoutMs, staleLoop, callbackCalls,
                   lastCallArg>>
    /\ UNCHANGED <<holdDurationMs, outsideHookVars>>

\* processDetectedGesture of a render in which isActive was true, called by a
\* frame loop that outlived that render.
StaleProcessDetectedGesture(detectedGesture) ==
    /\ staleLoop
    /\ ProcessBody(detectedGesture)
    /\ lastEvent' = Event("staleSample", detectedGesture, currentGestureRef)
    /\ UNCHANGED <<now, isActive, overallTimeoutMs, staleLoop, callbackCalls,
                   lastCallArg>>
    /\ UNCHANGED <<holdDurationMs, outsideHookVars>>

\* ---------------------------------------------------------------- timers
\* The callback of the hold timer.
HoldTimerFires(t) ==
    /\ t \in timers
    /\ t.kind = "hold"
    /\ t.due <= now
    /\ IF StillCurrent(currentGestureRef, t.gesture)
         THEN /\ confirmedOutcome' = getOutcomeForGesture(t.gesture)
              /\ overallTimeoutRef' = NoTimer
              /\ timers' = clearOverallTimer(timers \ {t})
              /\ callbackCalls' = callbackCalls + 1
              /\ lastCallArg' = getOutcomeForGesture(t.gesture)
              /\ lastEvent' = Event("confirm", t.gesture, currentGestureRef)
         ELSE /\ timers' = timers \ {t}
              /\ lastEvent' = Event("staleHold", t.gesture, currentGestureRef)
              /\ UNCHANGED <<confirmedOutcome, overallTimeoutRef, callbackCalls,
                             lastCallArg>>
    /\ confirmationTimerRef' = NoTimer
    /\ UNCHANGED <<now, isActive, overallTimeoutMs, currentGestureRef,
                   gestureStartTime, timeoutNotificationShown, feedbackGesture,
                   staleLoop>>
    /\ UNCHANGED <<holdDurationMs, outsideHookVars>>

\* The callback of the inactivity timer.
OverallTimerFires(t) ==
    /\ t \in timers
    /\ t.kind = "overall"
    /\ t.due <= now
    /\ timeoutNotificationShown' = TRUE
    /\ overallTimeoutRef' = NoTimer
    /\ timers' = timers \ {t}
    /\ lastEvent' = Event("timeout", Null, currentGestureRef)
    /\ UNCHANGED <<now, isActive, overallTimeoutMs, currentGestureRef,
                   gestureStartTime, confirmedOutcome, feedbackGesture,
                   confirmationTimerRef, staleLoop, callbackCalls, lastCallArg>>
    /\ UNCHANGED <<holdDurationMs, outsideHookVars>>

\* The clock advances by one millisecond; every timer that is due has fired.
Tick ==
    /\ now < MaxTime
    /\ \A t \in timers : t.due > now
    /\ now' = now + 1
    /\ lastEvent' = Event("tick", Null, currentGestureRef)
    /\ UNCHANGED <<isActive, overallTimeoutMs, staleLoop, callbackCalls,
                   lastCallArg>>
    /\ UNCHANGED engineVars
    /\ UNCHANGED <<holdDurationMs, outsideHookVars>>

Next ==
    \/ Activate
    \/ Deactivate
    \/ \E ms \in TimeoutValues : SetOverallTimeout(ms)
    \/ \E g \in SampleValues : ProcessDetectedGesture(g)
    \/ \E g \in SampleValues : StaleProcessDetectedGesture(g)
    \/ \E t \in timers : HoldTimerFires(t)
    \/ \E t \in timers : OverallTimerFires(t)
    \/ Tick

Spec == Init /\ [][Next]_vars

\* The engine driven only through the handlers of the current render: no
\* frame loop outlives the render that created it.
NextCurrentHandlers ==
    \/ Activate
    \/ Deactivate
    \/ \E ms \in TimeoutValues : SetOverallTimeout(ms)
    \/ \E g \in SampleValues : ProcessDetectedGesture(g)
    \/ \E t \in timers : HoldTimerFires(t)
    \/ \E t \in timers : OverallTimerFires(t)
    \/ Tick

SpecCurrentHandlers == Init /\ [][NextCurrentHandlers]_vars

\* ---------------------------------------------------------------- functions
\* The hook right after mount with the given props, no frame being classified
\* and no mapping call evaluated.
MountedWith(active, holdMs, timeoutMs) ==
    /\ now = 0
    /\ isActive = active
    /\ holdDurationMs = holdMs
    /\ overallTimeoutMs = timeoutMs
    /\ currentGestureRef = Null
    /\ gestureStartTime = NoTime
    /\ confirmedOutcome = Null
    /\ timeoutNotificationShown = FALSE
    /\ feedbackGesture = Null
    /\ confirmationTimerRef = NoTimer
    /\ overallTimeoutRef = IF active THEN OverallTimer(timeoutMs) ELSE NoTimer
    /\ timers = IF active THEN {OverallTimer(timeoutMs)} ELSE {}
    /\ staleLoop = FALSE
    /\ callbackCalls = 0
    /\ lastCallArg = Null
    /\ lastEvent = Event("mount", Null, Null)

\* classifyHandPose and getOutcomeForGesture on their own: estimateHands has
\* resolved to some hands value, and some value is about to be mapped.
InitFunctions ==
    /\ MountedWith(FALSE, HoldMs, TimeoutMs)
    /\ hands \in HandInputs
    /\ gesture = Pending
    /\ outcomeArg = Pending
    /\ outcomeResult = Pending
    /\ InitialStore
    /\ InitialClient

\* detectFrame: const gesture = classifyHandPose(hands).
ClassifyFrame ==
    /\ gesture = Pending
    /\ gesture' = classifyHandPose(hands)
    /\ UNCHANGED <<now, isActive, holdDurationMs, overallTimeoutMs, staleLoop,
                   callbackCalls, lastCallArg, lastEvent, engineVars, hands,
                   outcomeArg, outcomeResult>>
    /\ UNCHANGED <<storeVars, clientVars>>

\* A call getOutcomeForGesture(value).
GetOutcome(value) ==
    /\ outcomeResult = Pending
    /\ outcomeArg' = value
    /\ outcomeResult' = getOutcomeForGesture(value)
    /\ UNCHANGED <<now, isActive, holdDurationMs, overallTimeoutMs, staleLoop,
                   callbackCalls, lastCallArg, lastEvent, engineVars, hands,
                   gesture>>
    /\ UNCHANGED <<storeVars, clientVars>>

NextFunctions ==
    \/ ClassifyFrame
    \/ \E value \in SampleValues : GetOutcome(value)

SpecFunctions == InitFunctions /\ [][NextFunctions]_vars

\* ---------------------------------------------------------------- defaults
\* The hook rendered active without holdDurationMs and overallTimeoutMs, as
\* the timing test of the hook's suite renders it, under the suite's fake
\* clock.
InitDefaultConfig ==
    /\ MountedWith(TRUE, DEFAULT_HOLD_DURATION_MS, DEFAULT_OVERALL_TIMEOUT_MS)
    /\ hands = Pending
    /\ gesture = Pending
    /\ outcomeArg = Pending
    /\ outcomeResult = Pending
    /\ InitialStore
    /\ InitialClient

\* The test's gesture: first sampled before the clock has moved, and sampled
\* again unchanged afterwards.
HeldSample(detectedGesture) ==
    /\ \/ now = 0
       \/ detectedGesture = currentGestureRef
    /\ ProcessDetectedGesture(detectedGesture)

\* jest.advanceTimersByTime(ms), as far as the next due timer at most.
AdvanceTimersByTime(ms) ==
    /\ now + ms <= DefaultHorizon
    /\ \A t \in timers : t.due >= now + ms
    /\ now' = now + ms
    /\ lastEvent' = Event("advance", ms, currentGestureRef)
    /\ UNCHANGED <<isActive, overallTimeoutMs, staleLoop, callbackCalls,
                   lastCallArg>>
    /\ UNCHANGED engineVars
    /\ UNCHANGED <<holdDurationMs, outsideHookVars>>

NextDefaultConfig ==
    \/ \E g \in ConfirmableGestures : HeldSample(g)
    \/ \E ms \in AdvanceSteps : AdvanceTimersByTime(ms)
    \/ \E t \in timers : HoldTimerFires(t)
    \/ \E t \in timers : OverallTimerFires(t)

SpecDefaultConfig == InitDefaultConfig /\ [][NextDefaultConfig]_vars

\* ---------------------------------------------------------------- backend
\* Everything but the backend's store.
notStoreVars ==
    <<now, isActive, holdDurationMs, overallTimeoutMs, staleLoop,
      callbackCalls, lastCallArg, lastEvent, engineVars, frameVars,
      clientVars>>

Response(op, request, status, body) ==
    [op |-> op, request |-> request, status |-> status, body |-> body]

\* addFlashcard({front, back, hint}); randomUUID() is a number no card has.
addFlashcard(buckets, front, back, hint) ==
    LET flashcard == Flashcard(totalflashcards(buckets) + 1, front, back, hint)
        present == IF 0 \in DOMAIN buckets THEN buckets
                   ELSE MapSet(buckets, 0, {})
    IN  [present EXCEPT ![0] = @ \cup {flashcard}]

\* app.post("/api/flashcards")
PostFlashcards(front, back, hint) ==
    /\ IF Falsy(front) \/ Falsy(back) \/ front.type # "string"
          \/ back.type # "string"
         THEN /\ response' = Response("POST /api/flashcards",
                                      <<front, back, hint>>, 400,
                                      [error |-> "invalid data was sent"])
              /\ UNCHANGED currentBuckets
         ELSE /\ totalflashcards(currentBuckets)
                   < Cardinality(initialCards) + MaxAdded
              /\ currentBuckets' =
                   addFlashcard(currentBuckets, front.text, back.text, hint)
              /\ response' = Response("POST /api/flashcards",
                                      <<front, back, hint>>, 201,
                                      [front |-> front.text, back |-> back.text,
                                       hint |-> hint])
    /\ UNCHANGED <<practiceHistory, currentDay, notStoreVars>>

\* app.post("/api/update"); the record's timestamp is left out.
PostUpdateStore(cardFront, cardBack, difficulty) ==
    /\ IF difficulty \notin AnswerDifficultyValues
         THEN /\ response' = Response("POST /api/update",
                                      <<cardFront, cardBack, difficulty>>, 400,
                                      [error |-> "Invalid difficulty value."])
              /\ UNCHANGED <<currentBuckets, practiceHistory>>
         ELSE IF MatchingCards(currentBuckets, cardFront, cardBack) = {}
         THEN /\ response' = Response("POST /api/update",
                                      <<cardFront, cardBack, difficulty>>, 404,
                                      [error |-> "Card not found."])
              /\ UNCHANGED <<currentBuckets, practiceHistory>>
         ELSE \E card \in findCard(currentBuckets, cardFront, cardBack) :
                /\ currentBuckets' = update(currentBuckets, card, difficulty)
                /\ practiceHistory' =
                     Append(practiceHistory,
                            [cardFront |-> cardFront, cardBack |-> cardBack,
                             difficulty |-> difficulty,
                             previousBucket |->
                                 findCardBucket(currentBuckets, card),
                             newBucket |->
                                 findCardBucket(currentBuckets', card)])
                /\ response' = Response("POST /api/update",
                                        <<cardFront, cardBack, difficulty>>, 200,
                                        [message |-> "Card updated."])
    /\ UNCHANGED currentDay

PostUpdate(cardFront, cardBack, difficulty) ==
    /\ PostUpdateStore(cardFront, cardBack, difficulty)
    /\ UNCHANGED notStoreVars

\* app.get("/api/practice")
GetPractice ==
    /\ response' = Response("GET /api/practice", <<>>, 200,
                            [cards |-> practice(toBucketSets(currentBuckets),
                                                currentDay),
                             day |-> currentDay])
    /\ UNCHANGED <<currentBuckets, practiceHistory, currentDay, notStoreVars>>

\* app.post("/api/day/next")
PostDayNext ==
    /\ currentDay < MaxDay
    /\ currentDay' = currentDay + 1
    /\ response' = Response("POST /api/day/next", <<>>, 200,
                            [currentDay |-> currentDay + 1])
    /\ UNCHANGED <<currentBuckets, practiceHistory, notStoreVars>>

\* The backend started, the hook idle.
InitBackend ==
    /\ MountedWith(FALSE, HoldMs, TimeoutMs)
    /\ hands = Pending
    /\ gesture = Pending
    /\ outcomeArg = Pending
    /\ outcomeResult = Pending
    /\ InitialStore
    /\ InitialClient

\* Request bodies sent to the two POST endpoints.
FrontValues == {Str("2 + 2"), Str(""), Num("5"), Undefined}
BackValues == {Str("4"), Undefined}
HintValues == {Str("Basic math"), Undefined}
UpdateTargets == {<<Str("2 + 2"), Str("4")>>, <<Str("2 + 2"), Str("5")>>}
DifficultyValues == {Wrong, Hard, Easy, Num("3"), Str("Easy")}

\* The store driven through its creating and updating endpoints.
NextStore ==
    \/ \E front \in FrontValues, back \in BackValues, hint \in HintValues :
         PostFlashcards(front, back, hint)
    \/ \E target \in UpdateTargets, difficulty \in DifficultyValues :
         /\ Len(practiceHistory) < MaxTrials
         /\ PostUpdate(target[1], target[2], difficulty)

SpecStore == InitBackend /\ [][NextStore]_vars

\* Two of the initial cards answered Easy up to bucket MaxBucket, the day
\* advanced and the practice set fetched.
PromotedCards ==
    {<<Str("2 + 2"), Str("4")>>,
     <<Str("What does HTTP stand for?"), Str("HyperText Transfer Protocol")>>}

NextScheduler ==
    \/ \E target \in PromotedCards :
         /\ \A c \in MatchingCards(currentBuckets, target[1], target[2]) :
              BucketOf(currentBuckets, c) < MaxBucket
         /\ PostUpdate(target[1], target[2], Easy)
    \/ PostDayNext
    \/ GetPractice

SpecScheduler == InitBackend /\ [][NextScheduler]_vars

\* ---------------------------------------------------------------- PracticeView
\* Everything but PracticeView's state and the backend's store.
notViewVars ==
    <<now, isActive, holdDurationMs, overallTimeoutMs, staleLoop,
      callbackCalls, lastCallArg, lastEvent, engineVars, frameVars,
      detectionVars>>

\* response.cards of the first fetch: the initial cards, practiceCards[0]
\* being PracticeCard(0).
PracticeCard(index) == CHOOSE c \in initialCards : c.id = index + 1
PracticeCardsLength == Cardinality(initialCards)

\* The rating buttons and the camera are rendered.
RatingShown == showBack /\ ~sessionFinished /\ ~viewError

\* handleShowBack
HandleShowBack ==
    /\ ~showBack /\ ~sessionFinished /\ ~viewError
    /\ showBack' = TRUE
    /\ submitCalls' = 0
    /\ UNCHANGED <<currentCardIndex, sessionFinished, viewError,
                   pendingSubmits, storeVars, notViewVars>>

\* handleAnswer(difficulty) up to its await: submitAnswer is called with the
\* card of the render's currentCardIndex.
handleAnswer(difficulty) ==
    /\ currentCardIndex < PracticeCardsLength
    /\ Len(pendingSubmits) < MaxInFlight
    /\ Len(practiceHistory) + Len(pendingSubmits) < MaxTrials
    /\ pendingSubmits' =
         Append(pendingSubmits,
                [cardIndex |-> currentCardIndex, difficulty |-> difficulty])
    /\ submitCalls' = submitCalls + 1
    /\ UNCHANGED <<currentCardIndex, showBack, sessionFinished, viewError,
                   storeVars, notViewVars>>

\* onClick of the Easy, Hard and Wrong buttons
ClickAnswer(difficulty) ==
    /\ RatingShown
    /\ handleAnswer(difficulty)

\* handleGestureAnswer(outcome), called by the gesture hook, which is active
\* while showBack is true
HandleGestureAnswer(outcome) ==
    /\ RatingShown
    /\ IF outcome = "easy" THEN handleAnswer(Easy)
       ELSE IF outcome = "hard" THEN handleAnswer(Hard)
       ELSE IF outcome = "wrong" THEN handleAnswer(Wrong)
       ELSE UNCHANGED vars

WithoutSubmit(i) ==
    [j \in 1..(Len(pendingSubmits) - 1) |->
        IF j < i THEN pendingSubmits[j] ELSE pendingSubmits[j + 1]]

\* The backend handles the request of a pending submitAnswer and handleAnswer
\* resumes after its await, with the currentCardIndex of its render.
SubmitResolves(i) ==
    LET submit == pendingSubmits[i]
        card == PracticeCard(submit.cardIndex)
    IN  /\ PostUpdateStore(Str(card.front), Str(card.back), submit.difficulty)
        /\ pendingSubmits' = WithoutSubmit(i)
        /\ IF submit.cardIndex + 1 < PracticeCardsLength
             THEN /\ currentCardIndex' = submit.cardIndex + 1
                  /\ showBack' = FALSE
                  /\ UNCHANGED sessionFinished
             ELSE /\ sessionFinished' = TRUE
                  /\ UNCHANGED <<currentCardIndex, showBack>>
        /\ UNCHANGED <<viewError, submitCalls, notViewVars>>

\* The request of a pending submitAnswer fails: the catch branch.
SubmitFails(i) ==
    /\ pendingSubmits' = WithoutSubmit(i)
    /\ viewError' = TRUE
    /\ UNCHANGED <<currentCardIndex, showBack, sessionFinished, submitCalls,
                   storeVars, notViewVars>>

NextPracticeView ==
    \/ HandleShowBack
    \/ \E difficulty \in {Wrong, Hard, Easy} : ClickAnswer(difficulty)
    \/ \E outcome \in GestureOutcome : HandleGestureAnswer(outcome)
    \/ \E i \in 1..Len(pendingSubmits) : SubmitResolves(i)
    \/ \E i \in 1..Len(pendingSubmits) : SubmitFails(i)

SpecPracticeView == InitBackend /\ [][NextPracticeView]_vars

\* ---------------------------------------------------------------- detection hooks
\* Everything but the state of useHandGestureDetection and of the two hooks it
\* calls.
notDetectionVars ==
    <<now, isActive, holdDurationMs, overallTimeoutMs, staleLoop,
      callbackCalls, lastCallArg, lastEvent, engineVars, frameVars, storeVars,
      viewVars>>

\* The effect of useHandPoseDetection, run with the render's isActive,
\* detector and isModelLoading: it returns when inactive and otherwise
\* declares loadModel; the only calls of loadModel are the two at the end of
\* loadModel's own body, so the effect calls nothing and sets nothing.
LoadModelEffect(active) ==
    UNCHANGED <<detector, isModelLoading, modelError, modelLoadingPromiseRef>>

\* The frame-loop effect of useHandGestureDetection after a render with the
\* given props and state: the cleanup of the previous run, then the effect.
\* ref is requestRef.current and pending the frames requested when it runs.
FrameLoopEffect(active, ready, ref, pending) ==
    LET cleanedRef == Null
        cleanedFrames == IF ref # Null THEN 0 ELSE pending
    IN  IF active /\ ready /\ detector # Null
          THEN /\ requestRef' = "frame"
               /\ frames' = cleanedFrames + 1
          ELSE /\ requestRef' = cleanedRef
               /\ frames' = cleanedFrames

\* The host renders the hook with another isActive: the cleanups of
\* useWebcam's effect and of the frame-loop effect, then setupCamera, the
\* model effect and the frame-loop effect.
SetDetectionActive(active) ==
    /\ active # detectionActive
    /\ detectionActive' = active
    /\ metadataPending' = FALSE
    /\ IF active
         THEN /\ cameraRequested < MaxCameraRequests
              /\ pendingCamera < MaxInFlight
              /\ streamRef' = Null
              /\ pendingCamera' = pendingCamera + 1
              /\ cameraRequested' = cameraRequested + 1
              /\ UNCHANGED isWebcamReady
         ELSE /\ streamRef' = Null
              /\ isWebcamReady' = FALSE
              /\ UNCHANGED <<pendingCamera, cameraRequested>>
    /\ LoadModelEffect(active)
    /\ FrameLoopEffect(active, isWebcamReady', requestRef, frames)
    /\ UNCHANGED <<webcamError, detectionError, notDetectionVars>>

\* navigator.mediaDevices.getUserMedia resolves: setupCamera keeps the stream
\* and waits for the video's metadata.
GetUserMediaResolves ==
    /\ pendingCamera > 0
    /\ pendingCamera' = pendingCamera - 1
    /\ streamRef' = "MediaStream"
    /\ metadataPending' = TRUE
    /\ UNCHANGED <<detectionActive, cameraRequested, isWebcamReady,
                   webcamError, loaderVars, detectionError, requestRef,
                   frames, notDetectionVars>>

\* getUserMedia rejects: setError in useWebcam, and the error-combining
\* effect of useHandGestureDetection.
GetUserMediaRejects ==
    /\ pendingCamera > 0
    /\ pendingCamera' = pendingCamera - 1
    /\ webcamError' = "Ensure camera permissions are in our hand"
    /\ detectionError' = webcamError'
    /\ UNCHANGED <<detectionActive, cameraRequested, streamRef,
                   metadataPending, isWebcamReady, loaderVars, requestRef,
                   frames, notDetectionVars>>

\* video.onloadedmetadata: setIsWebcamReady(true), and the frame-loop effect
\* for the changed isWebcamReady.
LoadedMetadata ==
    /\ metadataPending
    /\ metadataPending' = FALSE
    /\ isWebcamReady' = TRUE
    /\ IF isWebcamReady
         THEN UNCHANGED <<requestRef, frames>>
         ELSE FrameLoopEffect(detectionActive, TRUE, requestRef, frames)
    /\ UNCHANGED <<detectionActive, pendingCamera, cameraRequested, streamRef,
                   webcamError, loaderVars, detectionError, notDetectionVars>>

NextDetection ==
    \/ \E active \in BOOLEAN : SetDetectionActive(active)
    \/ GetUserMediaResolves
    \/ GetUserMediaRejects
    \/ LoadedMetadata

SpecDetection == InitBackend /\ [][NextDetection]_vars

\* ================================================================ claims
\* The rating the specification assigns to a confirmable symbol.
RatingOf(g) ==
    CASE g = "THUMBS_UP" -> "easy"
      [] g = "THUMBS_SIDEWAYS" -> "hard"
      [] g = "THUMBS_DOWN" -> "wrong"

HoldTimers == {t \in timers : t.kind = "hold"}
OverallTimers == {t \in timers : t.kind = "overall"}

\* The step just taken delivered a sample that the engine processed (the
\* current handler of an active engine, or a handler kept by a stale loop).
SampleStep ==
    \/ lastEvent'.op = "sample" /\ isActive
    \/ lastEvent'.op = "staleSample"

\* The step just taken is a hold timer firing that confirmed its symbol.
ConfirmStep == lastEvent'.op = "confirm"

\* C1: within one activation window (isActive true since the last
\* activation) onGestureConfirmed is invoked at most once.
C1_AtMostOneCallbackPerWindow == isActive => callbackCalls <= 1

\* C2: a sample of a confirmable symbol g that starts g being tracked at time
\* t schedules the confirmation for t + holdDurationMs: while the hold is
\* pending the clock has not passed t + holdDurationMs and no outcome is
\* confirmed; the callback is invoked by nothing but the firing hold timer;
\* the hold timer of g fires at t + holdDurationMs exactly, sets
\* confirmedOutcome to the rating of g and invokes the callback once; and the
\* clock does not pass t + holdDurationMs with the timer still pending.
C2_HoldConfirmsAtHoldDuration ==
    /\ [](\A t \in HoldTimers :
            t.gesture \in ConfirmableGestures =>
              /\ currentGestureRef = t.gesture
              /\ gestureStartTime # NoTime
              /\ t.due = gestureStartTime + HoldMs
              /\ now <= t.due
              /\ confirmedOutcome = Null)
    /\ [][/\ (SampleStep /\ lastEvent'.arg \in ConfirmableGestures
                 /\ lastEvent'.arg # currentGestureRef) =>
               /\ gestureStartTime' = now
               /\ HoldTimers' = {[kind |-> "hold", gesture |-> lastEvent'.arg,
                                  due |-> now + HoldMs]}
               /\ confirmedOutcome' = Null
               /\ callbackCalls' = callbackCalls
          /\ (callbackCalls' > callbackCalls) => ConfirmStep
          /\ (ConfirmStep /\ lastEvent'.arg \in ConfirmableGestures) =>
               /\ now = gestureStartTime + HoldMs
               /\ confirmedOutcome' = RatingOf(lastEvent'.arg)
               /\ lastCallArg' = RatingOf(lastEvent'.arg)
               /\ callbackCalls' = callbackCalls + 1
          /\ (now' # now) => \A t \in HoldTimers : t.due > now
       ]_vars

\* C2 witness: THUMBS_SIDEWAYS, first sampled in an active engine, has just
\* been confirmed as hard, holdDurationMs after its first sample, by the only
\* callback invocation of the window.
C2_Witness ==
    /\ lastEvent = Event("confirm", "THUMBS_SIDEWAYS", "THUMBS_SIDEWAYS")
    /\ isActive
    /\ now = gestureStartTime + HoldMs
    /\ confirmedOutcome = "hard"
    /\ lastCallArg = "hard"
    /\ callbackCalls = 1

\* C3: whenever the callback is invoked, the tracked symbol is the symbol
\* that started the firing timer, the outcome passed is the outcome of that
\* symbol, and the symbol has been tracked since gestureStartTime, at least
\* holdDurationMs ago (gestureStartTime is set anew on every change of the
\* tracked symbol); every pending hold timer belongs to the tracked symbol and
\* to its current run, so a superseded timer never confirms.
C3_ConfirmationIsOfTrackedSymbol ==
    /\ [](\A t \in HoldTimers :
            /\ t = confirmationTimerRef
            /\ t.gesture = currentGestureRef
            /\ t.due = gestureStartTime + HoldMs)
    /\ [][/\ (currentGestureRef' # currentGestureRef
                 /\ currentGestureRef' \notin {Null, "OTHER"}) =>
               gestureStartTime' = now
          /\ (currentGestureRef' = currentGestureRef) =>
               gestureStartTime' = gestureStartTime
          /\ ConfirmStep =>
               /\ currentGestureRef = lastEvent'.arg
               /\ currentGestureRef' = currentGestureRef
               /\ gestureStartTime # NoTime
               /\ now - gestureStartTime >= HoldMs
               /\ lastEvent'.arg \in ConfirmableGestures =>
                    lastCallArg' = RatingOf(currentGestureRef)
               /\ lastEvent'.arg \notin ConfirmableGestures =>
                    lastCallArg' = Null
          /\ (lastEvent'.op = "staleHold") =>
               /\ callbackCalls' = callbackCalls
               /\ confirmedOutcome' = confirmedOutcome
       ]_vars

\* C3 witness: THUMBS_DOWN was confirmed as wrong in an active engine after
\* it had superseded an earlier symbol (its run started after time 0).
C3_Witness ==
    /\ lastEvent = Event("confirm", "THUMBS_DOWN", "THUMBS_DOWN")
    /\ isActive
    /\ gestureStartTime >= 1
    /\ now - gestureStartTime = HoldMs
    /\ lastCallArg = "wrong"

\* C4: the callback is only ever invoked with easy, hard or wrong.
C4_CallbackNeverGetsNull ==
    (lastEvent.op = "confirm") => lastCallArg \in {"easy", "hard", "wrong"}

\* C5: activation starts the inactivity timer for overallTimeoutMs; while it
\* is pending the engine is active and the notification is not shown; only a
\* confirmation, a deactivation or a new activation removes it; it fires when
\* the clock reaches activation + overallTimeoutMs and not before, the clock
\* does not pass that instant with the timer pending, and its firing raises
\* the notification, confirms no outcome and invokes no callback.  An outcome
\* is exposed only if the callback has been invoked with it.
C5_InactivityTimeoutFiresAtDeadline ==
    /\ [](\A t \in OverallTimers :
            /\ t = overallTimeoutRef
            /\ isActive
            /\ ~timeoutNotificationShown
            /\ now <= t.due)
    /\ [](confirmedOutcome # Null => confirmedOutcome = lastCallArg)
    /\ [][/\ (lastEvent'.op = "activate") =>
               /\ OverallTimers' = {[kind |-> "overall", gesture |-> Null,
                                     due |-> now + overallTimeoutMs]}
               /\ ~timeoutNotificationShown'
          /\ (OverallTimers' # OverallTimers) =>
               lastEvent'.op \in {"activate", "deactivate", "setOverallTimeout",
                                  "confirm", "timeout"}
          /\ (timeoutNotificationShown' /\ ~timeoutNotificationShown) =>
               lastEvent'.op = "timeout"
          /\ (lastEvent'.op = "timeout") =>
               /\ \E t \in OverallTimers : t.due = now
               /\ timeoutNotificationShown'
               /\ confirmedOutcome' = confirmedOutcome
               /\ callbackCalls' = callbackCalls
               /\ lastCallArg' = lastCallArg
          /\ (now' # now) => \A t \in OverallTimers : t.due > now
       ]_vars

\* C5 witness: an engine activated with the shorter timeout saw no
\* confirmation; the notification has just been raised, no outcome is
\* confirmed and the callback was not invoked.
C5_Witness ==
    /\ lastEvent.op = "timeout"
    /\ isActive
    /\ timeoutNotificationShown
    /\ overallTimeoutMs = TimeoutMs
    /\ now >= TimeoutMs
    /\ confirmedOutcome = Null
    /\ callbackCalls = 0
    /\ lastCallArg = Null

\* C6: a confirmation cancels the inactivity timer and leaves the
\* notification as it was; no inactivity timer is started again before the
\* next (re)activation (isActive turning true, or the overall timeout effect
\* running again for a new overallTimeoutMs); and the notification is raised
\* only by a pending inactivity timer firing.  So after a confirmation the
\* notification is not raised for the rest of the window.
C6_ConfirmationCancelsInactivityTimer ==
    /\ [][ConfirmStep =>
            /\ OverallTimers' = {}
            /\ overallTimeoutRef' = NoTimer
            /\ timeoutNotificationShown' = timeoutNotificationShown]_vars
    /\ [][(OverallTimers = {} /\ OverallTimers' # {}) =>
            lastEvent'.op \in {"activate", "setOverallTimeout"}]_vars
    /\ [][(timeoutNotificationShown' /\ ~timeoutNotificationShown) =>
            /\ lastEvent'.op = "timeout"
            /\ OverallTimers # {}]_vars

\* C6 witness: THUMBS_DOWN, sampled at time 0, was confirmed; every deadline
\* the window can have had is in the past, no inactivity timer is pending and
\* the notification is not shown.
C6_Witness ==
    /\ isActive
    /\ gestureStartTime = 0
    /\ confirmedOutcome = "wrong"
    /\ callbackCalls = 1
    /\ now >= HoldMs + TimeoutMs + 2
    /\ OverallTimers = {}
    /\ ~timeoutNotificationShown

\* C7: a sample of a confirmable g2 that arrives while another confirmable
\* g1 is being held removes g1's timer and starts one hold timer for g2, due
\* holdDurationMs after the change, with no callback; a confirmation is
\* always that of the tracked symbol, holdDurationMs after the start of its
\* current run, with the rating of that symbol.
C7_SupersedingSymbolRestartsHold ==
    /\ [][(/\ SampleStep
           /\ lastEvent'.arg \in ConfirmableGestures
           /\ currentGestureRef \in ConfirmableGestures
           /\ lastEvent'.arg # currentGestureRef
           /\ HoldTimers # {}) =>
            /\ HoldTimers' = {[kind |-> "hold", gesture |-> lastEvent'.arg,
                               due |-> now + HoldMs]}
            /\ currentGestureRef' = lastEvent'.arg
            /\ gestureStartTime' = now
            /\ callbackCalls' = callbackCalls
            /\ confirmedOutcome' = Null]_vars
    /\ [][ConfirmStep =>
            /\ lastEvent'.arg = currentGestureRef
            /\ \E t \in HoldTimers : t.gesture = lastEvent'.arg /\ t.due = now
            /\ now = gestureStartTime + HoldMs
            /\ lastEvent'.arg \in ConfirmableGestures =>
                 lastCallArg' = RatingOf(lastEvent'.arg)]_vars

\* C7 witness: THUMBS_UP has just superseded a THUMBS_DOWN whose hold cannot
\* have completed (the clock is at 1); one hold timer, for THUMBS_UP, is due
\* holdDurationMs from now.
C7_Witness ==
    /\ lastEvent = Event("sample", "THUMBS_UP", "THUMBS_DOWN")
    /\ isActive
    /\ now = 1
    /\ HoldMs > 1
    /\ gestureStartTime = 1
    /\ callbackCalls = 0
    /\ HoldTimers = {[kind |-> "hold", gesture |-> "THUMBS_UP", due |-> 1 + HoldMs]}

\* C8: while the tracked symbol is null or OTHER no hold timer is pending; a
\* null or OTHER sample that changes the tracked symbol leaves no hold timer
\* and invokes no callback; a hold timer is started only by a sample of
\* another kind; and the callback is invoked only by a firing hold timer,
\* never while null or OTHER is tracked.
C8_LostGestureCancelsHold ==
    /\ [](currentGestureRef \in {Null, "OTHER"} =>
            HoldTimers = {} /\ confirmationTimerRef = NoTimer)
    /\ [][/\ (SampleStep /\ lastEvent'.arg \in {Null, "OTHER"}
                 /\ lastEvent'.arg # currentGestureRef) =>
               /\ HoldTimers' = {}
               /\ confirmationTimerRef' = NoTimer
               /\ gestureStartTime' = NoTime
               /\ confirmedOutcome' = Null
               /\ callbackCalls' = callbackCalls
          /\ (HoldTimers' # {} /\ HoldTimers' # HoldTimers) =>
               SampleStep /\ lastEvent'.arg \notin {Null, "OTHER"}
          /\ (callbackCalls' > callbackCalls) =>
               ConfirmStep /\ currentGestureRef \notin {Null, "OTHER"}
       ]_vars

\* C8 witness: a held THUMBS_UP whose hold cannot have completed was lost to
\* a null sample; no timer of the hold is left and nothing was confirmed.
C8_Witness ==
    /\ lastEvent = Event("sample", Null, "THUMBS_UP")
    /\ isActive
    /\ now = 1
    /\ HoldMs > 1
    /\ HoldTimers = {}
    /\ confirmationTimerRef = NoTimer
    /\ confirmedOutcome = Null
    /\ callbackCalls = 0

\* C9: a sample equal to the tracked symbol changes nothing: no cell, ref or
\* timer of the engine, no callback; the pending hold timer stays due
\* holdDurationMs after the first sample of the run and confirms then.
C9_SameSampleIsNoOp ==
    /\ [][(lastEvent'.op \in {"sample", "staleSample"}
             /\ lastEvent'.arg = currentGestureRef) =>
            UNCHANGED <<engineVars, now, callbackCalls, lastCallArg>>]_vars
    /\ [](\A t \in HoldTimers : t.due = gestureStartTime + HoldMs)
    /\ [][ConfirmStep => now = gestureStartTime + HoldMs]_vars

\* C9 witness: THUMBS_UP is sampled again, later than its first sample, while
\* its hold timer is pending with the due time of the first sample.
C9_Witness ==
    /\ lastEvent = Event("sample", "THUMBS_UP", "THUMBS_UP")
    /\ isActive
    /\ gestureStartTime # NoTime
    /\ now > gestureStartTime
    /\ HoldTimers = {[kind |-> "hold", gesture |-> "THUMBS_UP",
                      due |-> gestureStartTime + HoldMs]}

\* C10: right after isActive turned true, confirmedOutcome is null, the
\* notification is not shown and exactly one inactivity timer is pending,
\* due overallTimeoutMs from now.
C10_ActivationResetsSession ==
    (lastEvent.op = "activate") =>
        /\ confirmedOutcome = Null
        /\ ~timeoutNotificationShown
        /\ OverallTimers = {[kind |-> "overall", gesture |-> Null,
                             due |-> now + overallTimeoutMs]}

\* C11: right after isActive turned false no timer is pending, both timer
\* refs are null and no symbol is tracked; and while the engine is
\* deactivated the inactivity notification is not raised and the callback is
\* not invoked.
C11_DeactivatedEngineStaysSilent ==
    ~isActive =>
        /\ lastEvent.op \notin {"confirm", "timeout"}
        /\ OverallTimers = {}
        /\ (lastEvent.op = "deactivate") =>
             /\ timers = {}
             /\ confirmationTimerRef = NoTimer
             /\ overallTimeoutRef = NoTimer
             /\ currentGestureRef = Null

\* C12: at most one hold timer and at most one inactivity timer are pending,
\* each of them the one its ref holds; and a step that starts a timer leaves
\* no earlier timer of that kind pending.
C12_AtMostOneTimerOfEachKind ==
    /\ [](/\ Cardinality(HoldTimers) <= 1
          /\ Cardinality(OverallTimers) <= 1
          /\ HoldTimers \subseteq {confirmationTimerRef}
          /\ OverallTimers \subseteq {overallTimeoutRef})
    /\ [][\A t \in timers' \ timers :
            \A u \in timers : u.kind = t.kind => u \notin timers']_vars

\* C12 witness: overallTimeoutMs has just changed in an active engine, after
\* the clock had moved, while a symbol was being held: one hold timer and one
\* (new) inactivity timer are pending.
C12_Witness ==
    /\ lastEvent.op = "setOverallTimeout"
    /\ isActive
    /\ now >= 1
    /\ Cardinality(HoldTimers) = 1
    /\ OverallTimers = {[kind |-> "overall", gesture |-> Null,
                         due |-> now + overallTimeoutMs]}

\* C13: a sample delivered while the engine is deactivated, through the
\* current handler or through one captured while the engine was active,
\* leaves the engine as the deactivation left it: no symbol tracked, no hold
\* timer pending, no start time.
C13_SampleAfterDeactivationIgnored ==
    (~isActive /\ lastEvent.op \in {"sample", "staleSample"}) =>
        /\ currentGestureRef = Null
        /\ HoldTimers = {}
        /\ confirmationTimerRef = NoTimer
        /\ gestureStartTime = NoTime

\* C14: while the tracked symbol is not one of the three confirmable symbols
\* no hold timer is pending, and the callback is only invoked for a
\* confirmable symbol.
C14_UnrecognisedSampleIsNonConfirmable ==
    /\ currentGestureRef \notin ConfirmableGestures => HoldTimers = {}
    /\ (lastEvent.op = "confirm") => lastEvent.arg \in ConfirmableGestures

\* C15: in an active engine a tracked confirmable symbol either has its hold
\* timer pending or has been confirmed, with its rating, in this window; so a
\* symbol held for holdDurationMs in a window cannot stay unconfirmed.
C15_HeldSymbolIsConfirmedInEveryWindow ==
    (isActive /\ currentGestureRef \in ConfirmableGestures /\ HoldTimers = {}) =>
        /\ callbackCalls >= 1
        /\ lastCallArg = RatingOf(currentGestureRef)

\* C16: the feedback symbol always equals the tracked symbol.
C16_FeedbackEqualsTrackedSymbol == feedbackGesture = currentGestureRef

C18_DefaultHoldIs750Ms ==
    (currentGestureRef \in ConfirmableGestures /\ gestureStartTime # NoTime) =>
        /\ now - gestureStartTime < HOLD_DURATION_MS => confirmedOutcome = Null
        /\ now - gestureStartTime > HOLD_DURATION_MS =>
             confirmedOutcome = RatingOf(currentGestureRef)

\* hands[0] has its 21 keypoints and every required landmark has its z.
CompleteHand(h) ==
    /\ ~h.isNull
    /\ h.length >= 1
    /\ h.hasKeypoints3D
    /\ h.keypointCount >= 21
    /\ \A name \in RequiredLandmarks : "z" \in DOMAIN h.landmarks[name]

\* C19: classifyHandPose returns null when hands is null or empty, when the
\* first hand has no keypoints3D or fewer than 21 of them, or when one of the
\* seven required landmarks has no z, whatever the coordinates are.
C19_IncompleteHandIsNone ==
    (gesture # Pending /\ ~CompleteHand(hands)) => gesture = Null

\* C19 witness: a hand with 21 keypoints whose thumb passes the extension
\* test and points along y, classified null because only the pinky MCP lacks
\* its z.
C19_Witness ==
    /\ gesture = Null
    /\ ~hands.isNull
    /\ hands.length = 1
    /\ hands.hasKeypoints3D
    /\ hands.keypointCount = 21
    /\ "z" \notin DOMAIN hands.landmarks.pinkyMCP
    /\ \A name \in RequiredLandmarks \ {"pinkyMCP"} :
         "z" \in DOMAIN hands.landmarks[name]
    /\ isThumbExtended(calculateAngle(hands.landmarks.thumbCMC,
                                      hands.landmarks.thumbMCP,
                                      hands.landmarks.thumbTIP))
    /\ hands.landmarks.thumbTIP.y # 0

\* The vectors CMC->MCP and MCP->TIP of a pose are parallel (their cross
\* product vanishes, neither is zero) and point the same way, or opposite ways.
ThumbVectorsParallel(pose) ==
    LET ab == Minus(pose.thumbMCP, pose.thumbCMC)
        bc == Minus(pose.thumbTIP, pose.thumbMCP)
    IN  /\ ab.y * bc.z - ab.z * bc.y = 0
        /\ ab.z * bc.x - ab.x * bc.z = 0
        /\ ab.x * bc.y - ab.y * bc.x = 0
        /\ Dot(ab, ab) # 0
        /\ Dot(bc, bc) # 0

ThumbStraight(pose) ==
    /\ ThumbVectorsParallel(pose)
    /\ Dot(Minus(pose.thumbMCP, pose.thumbCMC),
           Minus(pose.thumbTIP, pose.thumbMCP)) > 0

ThumbFoldedBack(pose) ==
    /\ ThumbVectorsParallel(pose)
    /\ Dot(Minus(pose.thumbMCP, pose.thumbCMC),
           Minus(pose.thumbTIP, pose.thumbMCP)) < 0

\* C20: a complete hand whose thumb is straight gets the symbol the
\* orientation test decides, and one whose thumb is folded back at the MCP
\* joint gets null.
C20_StraightThumbPassesFoldedThumbRejected ==
    (gesture # Pending /\ CompleteHand(hands)) =>
        /\ ThumbStraight(hands.landmarks) =>
             gesture = OrientationDecision(OrientationProduct(hands.landmarks))
        /\ ThumbFoldedBack(hands.landmarks) => gesture = Null

\* The bands of the orientation product v = num / sqrt(sqden): v < -0.7,
\* v > 0.7 and |v| < 0.3; v is NaN when sqden = 0 and then in no band.
InUpBand(v) == v.sqden # 0 /\ v.num < 0 /\ 100 * v.num * v.num > 49 * v.sqden
InDownBand(v) == v.sqden # 0 /\ v.num > 0 /\ 100 * v.num * v.num > 49 * v.sqden
InSidewaysBand(v) == v.sqden # 0 /\ 100 * v.num * v.num < 9 * v.sqden

\* hands is a complete hand whose thumb passes the extension test.
PassesThumbTest(h) ==
    /\ CompleteHand(h)
    /\ isThumbExtended(calculateAngle(h.landmarks.thumbCMC,
                                      h.landmarks.thumbMCP,
                                      h.landmarks.thumbTIP))

\* C21: for a hand that passes the thumb-extension test the result is
\* THUMBS_UP iff v < -0.7, THUMBS_DOWN iff v > 0.7, THUMBS_SIDEWAYS iff
\* |v| < 0.3 and null otherwise, the boundary values included; no v is in two
\* bands.
C21_OrientationBands ==
    (gesture # Pending /\ PassesThumbTest(hands)) =>
        LET v == OrientationProduct(hands.landmarks)
        IN  /\ gesture = "THUMBS_UP" <=> InUpBand(v)
            /\ gesture = "THUMBS_DOWN" <=> InDownBand(v)
            /\ gesture = "THUMBS_SIDEWAYS" <=> InSidewaysBand(v)
            /\ gesture = Null <=>
                 ~(InUpBand(v) \/ InDownBand(v) \/ InSidewaysBand(v))
            /\ ~(InUpBand(v) /\ InDownBand(v))
            /\ ~(InUpBand(v) /\ InSidewaysBand(v))
            /\ ~(InDownBand(v) /\ InSidewaysBand(v))

\* C21 witness: a hand that passes the thumb test with v exactly 0.7 has been
\* classified null.
C21_Witness ==
    /\ gesture = Null
    /\ PassesThumbTest(hands)
    /\ OrientationProduct(hands.landmarks).num > 0
    /\ 100 * OrientationProduct(hands.landmarks).num
           * OrientationProduct(hands.landmarks).num
         = 49 * OrientationProduct(hands.landmarks).sqden

\* A non-empty string.
NonEmptyString(v) == v.type = "string" /\ v.text # ""

\* The cards a step put into the store.
AddedCards == AllCards(currentBuckets') \ AllCards(currentBuckets)

\* Every card is in the same bucket before and after the step.
StoredCardsStay ==
    \A k \in DOMAIN currentBuckets :
        k \in DOMAIN currentBuckets' /\ currentBuckets[k] \subseteq currentBuckets'[k]

PostFlashcardsAnswer(front, back, hint) ==
    IF NonEmptyString(front) /\ NonEmptyString(back)
    THEN /\ response'.status = 201
         /\ response'.body = [front |-> front.text, back |-> back.text,
                              hint |-> hint]
         /\ Cardinality(AddedCards) = 1
         /\ \A c \in AddedCards :
              /\ c.front = front.text /\ c.back = back.text /\ c.hint = hint
              /\ BucketOf(currentBuckets', c) = 0
         /\ totalflashcards(currentBuckets')
              = totalflashcards(currentBuckets) + 1
         /\ StoredCardsStay
    ELSE /\ response'.status = 400
         /\ response'.body = [error |-> "invalid data was sent"]
         /\ currentBuckets' = currentBuckets

\* C22: POST /api/flashcards with a non-empty string front and back adds
\* exactly one card, in bucket 0, and answers 201 with the card's front, back
\* and hint; with any other front or back it answers 400 with the error
\* "invalid data was sent" and leaves the buckets and the card count as they
\* were.
C22_PostFlashcardsAddsOneOrRejects ==
    [][\A front \in FrontValues, back \in BackValues, hint \in HintValues :
          PostFlashcards(front, back, hint)
              => PostFlashcardsAnswer(front, back, hint)]_vars

C22_Witness ==
    /\ response.op = "POST /api/flashcards"
    /\ response.status = 201
    /\ totalflashcards(currentBuckets) = Cardinality(initialCards) + 1

\* The bucket the claim gives a card of bucket b after an answer.
ExpectedBucket(b, difficulty) ==
    IF difficulty = Wrong THEN 0
    ELSE IF difficulty = Hard THEN (IF b - 1 >= 0 THEN b - 1 ELSE 0)
    ELSE b + 1

BucketsHolding(buckets, card) == {k \in DOMAIN buckets : card \in buckets[k]}

\* C23: in every store reached by adding cards and answering them, update
\* of a stored card of bucket b leaves the card in exactly one bucket (0 for
\* Wrong, max(b - 1, 0) for Hard, b + 1 for Easy), every other card in its
\* bucket and the number of cards as it was.
C23_UpdateMovesOnlyTheCard ==
    \A card \in AllCards(currentBuckets) :
      \A difficulty \in {Wrong, Hard, Easy} :
        LET b == BucketOf(currentBuckets, card)
            after == update(currentBuckets, card, difficulty)
        IN  /\ BucketsHolding(currentBuckets, card) = {b}
            /\ BucketsHolding(after, card) = {ExpectedBucket(b, difficulty)}
            /\ \A other \in AllCards(currentBuckets) \ {card} :
                 BucketsHolding(after, other)
                     = BucketsHolding(currentBuckets, other)
            /\ AllCards(after) = AllCards(currentBuckets)
            /\ totalflashcards(after) = totalflashcards(currentBuckets)

C23_Witness ==
    /\ Len(practiceHistory) = MaxTrials
    /\ totalflashcards(currentBuckets) > Cardinality(initialCards)
    /\ \E card \in AllCards(currentBuckets) :
         BucketOf(currentBuckets, card) = 2 /\ card.id = 4

\* The cards of the buckets i with day mod 2^i = 0.
DueCards(buckets, day) ==
    UNION {buckets[i] : i \in {j \in DOMAIN buckets : day % Pow2(j) = 0}}

\* C24: GET /api/practice answers exactly the cards of the buckets i with
\* day mod 2^i = 0, for every number of buckets and every day, bucket 4 of
\* exactly five buckets included.
C24_PracticeIsTheDueCards ==
    response.op = "GET /api/practice"
        => /\ response.body.day = currentDay
           /\ response.body.cards = DueCards(currentBuckets, currentDay)

\* The days after today within one full period of the highest bucket.
LaterDays == (currentDay + 1)..(currentDay + Pow2(MaxBucket))

\* What GET /api/practice answers when the day counter has been advanced to
\* day and no card was moved.
PracticeOn(day) == practice(toBucketSets(currentBuckets), day)

\* C25: in every reachable store every card is in the practice set of some
\* later day, provided it is not moved before.
C25_NoCardIsStarved ==
    \A card \in AllCards(currentBuckets) :
        \E day \in LaterDays : card \in PracticeOn(day)

\* The three AnswerDifficulty values 0, 1 and 2.
EnumDifficulties == {Wrong, Hard, Easy}

PostUpdateAnswer(cardFront, cardBack, difficulty) ==
    /\ difficulty \notin EnumDifficulties => response'.status = 400
    /\ (difficulty \in EnumDifficulties
          /\ MatchingCards(currentBuckets, cardFront, cardBack) = {})
         => response'.status = 404
    /\ response'.status \in {400, 404}
         => /\ currentBuckets' = currentBuckets
            /\ practiceHistory' = practiceHistory
    /\ response'.status \notin {400, 404}
         => /\ response'.status = 200
            /\ Len(practiceHistory') = Len(practiceHistory) + 1

\* C26: POST /api/update answers 400 when the difficulty is none of 0, 1
\* and 2, and 404 when no stored card has the given front and back; both
\* leave the buckets and the history as they were; any other answer is a 200
\* and appends exactly one history record.
C26_PostUpdateValidates ==
    [][\A target \in UpdateTargets, difficulty \in DifficultyValues :
          PostUpdate(target[1], target[2], difficulty)
              => PostUpdateAnswer(target[1], target[2], difficulty)]_vars

\* C27: while the engine is active, no outcome is confirmed and the timeout
\* notification is not shown, an inactivity timer is pending, also after a
\* confirmation was superseded by a later differing sample of the same
\* window.
C27_InactivityTimerPendingWhileUndecided ==
    (isActive /\ confirmedOutcome = Null /\ ~timeoutNotificationShown)
        => /\ OverallTimers # {}
           /\ overallTimeoutRef \in OverallTimers

\* C28: for each reveal of a card's answer submitAnswer is called at most
\* once, whatever the order of button clicks, gesture confirmations and the
\* responses of earlier submissions.
C28_OneSubmitPerReveal == submitCalls <= 1

\* C30: while useHandPoseDetection is active and no detector is loaded, the
\* loading of the model has been started: it is in progress or has ended
\* with modelError set.
C30_ActiveHookLoadsTheModel ==
    (detectionActive /\ detector = Null)
        => (isModelLoading \/ modelError # Null)

====
